---------------------------- MODULE Spec2Model ----------------------------
(***************************************************************************)
(* Verification model of the multi-tenant RAG ingestion/retrieval          *)
(* pipeline: the chunker (src/src/chunking.py), the namespace sanitizer    *)
(* (src/src/clients.py), the tenant lifecycle manager                      *)
(* (src/src/manage_org.py, src/src/search_index.py), the ingestion         *)
(* pipeline for files (src/src/document_processor.py, with the text        *)
(* extraction of src/src/file_processors.py) and for web pages             *)
(* (src/src/web_scraper.py), the metadata record service                   *)
(* (src/src/mongodb_service.py, src/src/mongodb_client.py) and retrieval   *)
(* and answering (src/src/search.py, src/usage.py).                        *)
(*                                                                         *)
(* Strings are modelled as sequences of one-character strings, with        *)
(* Python's 0-based, half-open, negative-wrapping index arithmetic.        *)
(***************************************************************************)
EXTENDS Integers, Sequences, FiniteSets, TLC

(***************************************************************************)
(* Bounds of the model.                                                    *)
(***************************************************************************)
MaxTextLen == 7
MaxChunkSize == 6
MaxOverlap == 3
MaxIter == MaxTextLen + 2
MaxNameLen == 3
MaxCalls == 3

TextChars == {"a", " ", "\n"}
Whitespace == {" ", "\n", "\t"}

BoundedSeq(S, n) == UNION {[1..k -> S] : k \in 0..n}

Min(a, b) == IF a < b THEN a ELSE b
Max(a, b) == IF a > b THEN a ELSE b

(***************************************************************************)
(* Python string primitives.                                               *)
(***************************************************************************)
\* Python's normalisation of a slice bound i for a string of length n.
PyIndex(i, n) == IF i < 0 THEN Max(i + n, 0) ELSE Min(i, n)

\* s[i:j]
Slice(s, i, j) == SubSeq(s, PyIndex(i, Len(s)) + 1, PyIndex(j, Len(s)))

\* s.rfind(c, i, j): highest 0-based index of c within s[i:j], or -1.
RFind(s, c, i, j) ==
    LET hits == {k \in PyIndex(i, Len(s))..(PyIndex(j, Len(s)) - 1) : s[k + 1] = c}
    IN  IF hits = {} THEN -1 ELSE CHOOSE k \in hits : \A h \in hits : h <= k

\* number of leading characters of s that belong to cs
LeadCount(s, cs) ==
    LET stops == {k \in 1..Len(s) : s[k] \notin cs}
    IN  IF stops = {} THEN Len(s) ELSE (CHOOSE k \in stops : \A h \in stops : k <= h) - 1

\* number of trailing characters of s that belong to cs
TrailCount(s, cs) ==
    LET stops == {k \in 1..Len(s) : s[k] \notin cs}
    IN  IF stops = {} THEN Len(s) ELSE Len(s) - (CHOOSE k \in stops : \A h \in stops : h <= k)

\* s.strip(cs)
StripChars(s, cs) ==
    IF LeadCount(s, cs) = Len(s) THEN <<>>
    ELSE SubSeq(s, LeadCount(s, cs) + 1, Len(s) - TrailCount(s, cs))

\* s.rstrip(cs)
RStripChars(s, cs) == SubSeq(s, 1, Len(s) - TrailCount(s, cs))

\* s.strip()
Strip(s) == StripChars(s, Whitespace)

(***************************************************************************)
(* chunk_text (src/src/chunking.py)                                        *)
(***************************************************************************)
VARIABLES text, chunk_size, overlap, cpc, start, chunks, spans, iters

\* sanitize_azure_name: the input and the results of successive applications
VARIABLES name, outs

\* the collaborators' contents: vector index service, object store and
\* record store (knowledge_sources, knowledge_documents)
VARIABLES indexes, index_docs, containers, blobs, sources, kdocs, next_id

\* the ingestion run in flight (position and locals of
\* process_and_upload_org_files / process_file_batch), the number of calls
\* made so far, what the last finished call gave its caller, and the tenant
\* identifiers served so far
VARIABLES pc, run, ncalls, ret, served

chunkVars == <<text, chunk_size, overlap, cpc, start, chunks, spans, iters>>
sanVars == <<name, outs>>
storeVars == <<indexes, index_docs, containers, blobs, sources, kdocs, next_id>>
callVars == <<pc, run, ncalls, ret, served>>
sysVars == <<storeVars, callVars>>

vars == <<chunkVars, sanVars, sysVars>>

ChunkIdle ==
    /\ text = <<>> /\ chunk_size = 1 /\ overlap = 0 /\ cpc = "idle"
    /\ start = 0 /\ chunks = <<>> /\ spans = <<>> /\ iters = 0

SanIdle == name = <<>> /\ outs = <<>>

NoId == 0
\* run: the arguments and locals of the ingestion in flight; exc is the
\* exception caught inside process_file_batch, raised the one it lets out
NoRun == [op |-> "none", org |-> <<>>, args |-> <<>>, documents |-> <<>>, mongo_documents |-> <<>>,
          source_id |-> NoId, upsert |-> "none", meta |-> "none", exc |-> "none",
          raised |-> "none"]
\* ret: the finished call, its arguments, what it gave its caller and the
\* requests it issued to the index and generation services
NoRet == [op |-> "none", org |-> <<>>, args |-> <<>>, status |-> "none",
          upsert |-> "none", meta |-> "none", exc |-> "none", issued |-> <<>>,
          results |-> <<>>, answer |-> <<>>]

SysIdle ==
    /\ indexes = {} /\ index_docs = {} /\ containers = {} /\ blobs = {}
    /\ sources = <<>> /\ kdocs = {} /\ next_id = 1
    /\ pc = "idle" /\ run = NoRun /\ ncalls = 0 /\ ret = NoRet /\ served = {}

\* WindowEnd with the window one character too wide
WindowEnd_TooWide(t, size, st) ==
    LET end0 == st + size + 1
        last_space == RFind(t, " ", st, end0)
    IN  IF end0 < Len(t) /\ last_space > st THEN last_space ELSE end0

\* end of the window of text t that begins at st (lines 20-25)
WindowEnd(t, size, st) ==
    LET end0 == st + size
        last_space == RFind(t, " ", st, end0)
    IN  IF end0 < Len(t) /\ last_space > st THEN last_space ELSE end0

\* the 0-based half-open range of t that t[st:en].strip() occupies
StrippedSpan(t, st, en) ==
    LET lo == PyIndex(st, Len(t))
        raw == Slice(t, st, en)
    IN  <<lo + LeadCount(raw, Whitespace), lo + LeadCount(raw, Whitespace) + Len(Strip(raw))>>

ChunkInit ==
    /\ text \in BoundedSeq(TextChars, MaxTextLen)
    /\ chunk_size \in 1..MaxChunkSize
    /\ overlap \in (-1)..MaxOverlap
    /\ cpc = "call"
    /\ start = 0
    /\ chunks = <<>>
    /\ spans = <<>>
    /\ iters = 0
    /\ SanIdle
    /\ SysIdle

\* ChunkEnter with the short-text test written as < instead of <=
ChunkEnter_StrictLess ==
    /\ cpc = "call"
    /\ IF Len(text) < chunk_size
       THEN /\ chunks' = <<text>>
            /\ spans' = <<<<0, Len(text)>>>>
            /\ cpc' = "done"
       ELSE /\ chunks' = <<>>
            /\ spans' = <<>>
            /\ cpc' = IF 0 < Len(text) THEN "loop" ELSE "done"
    /\ start' = 0
    /\ UNCHANGED <<text, chunk_size, overlap, iters>>
    /\ UNCHANGED <<sanVars, sysVars>>

\* lines 13-17: the short-text return, or entry into the windowing loop
ChunkEnter ==
    /\ cpc = "call"
    /\ IF Len(text) <= chunk_size
       THEN /\ chunks' = <<text>>
            /\ spans' = <<<<0, Len(text)>>>>
            /\ cpc' = "done"
       ELSE /\ chunks' = <<>>
            /\ spans' = <<>>
            /\ cpc' = IF 0 < Len(text) THEN "loop" ELSE "done"
    /\ start' = 0
    /\ UNCHANGED <<text, chunk_size, overlap, iters>>
    /\ UNCHANGED <<sanVars, sysVars>>

\* lines 19-33: one iteration of the while loop
ChunkIter ==
    /\ cpc = "loop"
    /\ iters < MaxIter
    /\ LET end == WindowEnd(text, chunk_size, start)
           chunk == Strip(Slice(text, start, end))
       IN  /\ chunks' = IF chunk # <<>> THEN Append(chunks, chunk) ELSE chunks
           /\ spans' = IF chunk # <<>> THEN Append(spans, StrippedSpan(text, start, end)) ELSE spans
           /\ start' = end - overlap
           /\ cpc' = IF end - overlap >= Len(text) THEN "done" ELSE "loop"
    /\ iters' = iters + 1
    /\ UNCHANGED <<text, chunk_size, overlap>>
    /\ UNCHANGED <<sanVars, sysVars>>

ChunkNext == ChunkEnter \/ ChunkIter

\* lines 19-33 run to completion from window start st; returns is FALSE
\* when the loop is still running after MaxIter iterations
RECURSIVE ChunkLoop(_, _, _, _, _, _)
ChunkLoop(t, size, ov, st, acc, fuel) ==
    IF fuel = 0 THEN [returns |-> FALSE, chunks |-> acc]
    ELSE LET end == WindowEnd(t, size, st)
             chunk == Strip(Slice(t, st, end))
             acc2 == IF chunk # <<>> THEN Append(acc, chunk) ELSE acc
         IN  IF end - ov >= Len(t) THEN [returns |-> TRUE, chunks |-> acc2]
             ELSE ChunkLoop(t, size, ov, end - ov, acc2, fuel - 1)

\* chunk_text as a function of its arguments (lines 1-35)
chunk_text(t, size, ov) ==
    IF Len(t) <= size THEN [returns |-> TRUE, chunks |-> <<t>>]
    ELSE IF 0 < Len(t) THEN ChunkLoop(t, size, ov, 0, <<>>, MaxIter)
    ELSE [returns |-> TRUE, chunks |-> <<>>]

SpecChunk == ChunkInit /\ [][ChunkNext]_vars

GoodConfig == chunk_size > overlap /\ overlap >= 0

\* C1: with chunk_size > overlap >= 0 every loop iteration moves the window
\* start strictly forward.
C1_StartAdvances == [][(cpc = "loop" /\ GoodConfig) => start' > start]_vars

BadConfig == overlap >= chunk_size \/ overlap < 0

\* C2: a call with overlap >= chunk_size or a negative overlap never enters
\* the windowing loop and never produces a chunk.
C2_BadConfigRejected == BadConfig => (cpc # "loop" /\ chunks = <<>>)

LongText == Len(text) > chunk_size

\* C3: for a text longer than chunk_size, every returned chunk is at most
\* chunk_size long and non-empty after trimming.
C3_ChunksBounded ==
    (cpc = "done" /\ LongText /\ GoodConfig) =>
        \A i \in 1..Len(chunks) :
            Len(chunks[i]) <= chunk_size /\ Strip(chunks[i]) # <<>>

C3_Witness ==
    /\ cpc = "done" /\ LongText /\ GoodConfig
    /\ Len(chunks) >= 3
    /\ \E i \in 1..Len(chunks) : Len(chunks[i]) = chunk_size
    /\ Len(SelectSeq(text, LAMBDA c : c \in Whitespace)) >= 2

\* p is inside one of the returned chunks
Covered(p) == \E i \in 1..Len(spans) : spans[i][1] <= p /\ p < spans[i][2]

\* C4: for a text longer than chunk_size the returned chunks leave no gap.
\* Stated for the positions that hold a non-whitespace character: trimming
\* never removes those, so a violation is a gap between the windows.
C4_Coverage ==
    (cpc = "done" /\ LongText /\ GoodConfig) =>
        \A p \in 0..(Len(text) - 1) : text[p + 1] \notin Whitespace => Covered(p)

\* C5 as claimed: a text no longer than chunk_size comes back as one element
\* equal to the trimmed input.
C5_ShortTextTrimmed ==
    (cpc = "done" /\ ~LongText) => chunks = <<Strip(text)>>

\* C5 (amended): a text no longer than chunk_size comes back as exactly one
\* element, the input text itself, untrimmed.
C5_ShortTextWhole ==
    (cpc = "done" /\ ~LongText) => chunks = <<text>>

C5_Witness ==
    /\ cpc = "done" /\ ~LongText
    /\ Len(text) = chunk_size
    /\ Strip(text) # text /\ Strip(text) # <<>>
    /\ chunks = <<text>>

(***************************************************************************)
(* sanitize_azure_name (src/src/clients.py)                                *)
(***************************************************************************)
AzureNameLimit == 128

LowerLetters == {"a", "b", "c", "d", "e", "f", "g", "h", "i", "j", "k", "l", "m",
                 "n", "o", "p", "q", "r", "s", "t", "u", "v", "w", "x", "y", "z"}
Digits == {"0", "1", "2", "3", "4", "5", "6", "7", "8", "9"}

\* the characters the pattern [^a-z0-9-] leaves alone
NameSafe == LowerLetters \cup Digits \cup {"-"}

\* str.lower() on one character
LowerChar(c) ==
    CASE c = "A" -> "a" [] c = "B" -> "b" [] c = "C" -> "c" [] c = "D" -> "d"
      [] c = "E" -> "e" [] c = "F" -> "f" [] c = "G" -> "g" [] c = "H" -> "h"
      [] c = "I" -> "i" [] c = "J" -> "j" [] c = "K" -> "k" [] c = "L" -> "l"
      [] c = "M" -> "m" [] c = "N" -> "n" [] c = "O" -> "o" [] c = "P" -> "p"
      [] c = "Q" -> "q" [] c = "R" -> "r" [] c = "S" -> "s" [] c = "T" -> "t"
      [] c = "U" -> "u" [] c = "V" -> "v" [] c = "W" -> "w" [] c = "X" -> "x"
      [] c = "Y" -> "y" [] c = "Z" -> "z" [] OTHER -> c

\* s.replace(a, b) for one-character a and b
ReplaceChar(s, a, b) == [i \in 1..Len(s) |-> IF s[i] = a THEN b ELSE s[i]]

\* s paired with the character before each position
WithPrev(s) == [i \in 1..Len(s) |-> <<s[i], IF i > 1 THEN s[i - 1] ELSE "">>]

\* re.sub(r'-+', '-', s): every dash that follows a dash is dropped
CollapseDashes(s) ==
    LET kept == SelectSeq(WithPrev(s), LAMBDA p : ~(p[1] = "-" /\ p[2] = "-"))
    IN  [i \in 1..Len(kept) |-> kept[i][1]]

\* Canonical with the dashes collapsed before, not after, the unsafe
\* characters are mapped to dashes
Canonical_CollapseFirst(n) ==
    LET lowered == [i \in 1..Len(n) |-> LowerChar(n[i])]
        dashed == CollapseDashes(ReplaceChar(ReplaceChar(lowered, "_", "-"), " ", "-"))
        safe == [i \in 1..Len(dashed) |-> IF dashed[i] \in NameSafe THEN dashed[i] ELSE "-"]
    IN  StripChars(safe, {"-"})

\* lines 36-45: lower-case, map every unsafe character to a dash, collapse
\* the dashes and strip them from both ends
Canonical(n) ==
    LET lowered == [i \in 1..Len(n) |-> LowerChar(n[i])]
        dashed == ReplaceChar(ReplaceChar(lowered, "_", "-"), " ", "-")
        safe == [i \in 1..Len(dashed) |-> IF dashed[i] \in NameSafe THEN dashed[i] ELSE "-"]
    IN  StripChars(CollapseDashes(safe), {"-"})

\* sanitize_azure_name that truncates without removing a trailing dash
sanitize_azure_name_NoRstrip(n) ==
    LET sanitized == Canonical(n)
    IN  IF Len(sanitized) > AzureNameLimit
        THEN SubSeq(sanitized, 1, AzureNameLimit)
        ELSE sanitized

\* lines 25-50
sanitize_azure_name(n) ==
    LET sanitized == Canonical(n)
    IN  IF Len(sanitized) > AzureNameLimit
        THEN RStripChars(SubSeq(sanitized, 1, AzureNameLimit), {"-"})
        ELSE sanitized

NameChars == {"a", "B", "7", "_", " ", "-", "!"}

\* lengths of the run of letters inserted into a short name, so that the
\* input ends just below, at and above the length limit
PadLens == {0} \cup ((AzureNameLimit - 2)..(AzureNameLimit + 1))

Padded(short, k, pad) ==
    SubSeq(short, 1, k) \o [i \in 1..pad |-> "a"] \o SubSeq(short, k + 1, Len(short))

SanInit ==
    /\ \E short \in BoundedSeq(NameChars, MaxNameLen) :
         \E k \in 0..Len(short) :
           \E pad \in PadLens : name = Padded(short, k, pad)
    /\ outs = <<>>
    /\ ChunkIdle
    /\ SysIdle

\* one application of sanitize_azure_name: to the input, then to its own
\* result
SanApply ==
    /\ Len(outs) < 2
    /\ outs' = Append(outs, sanitize_azure_name(IF outs = <<>> THEN name ELSE outs[Len(outs)]))
    /\ UNCHANGED <<name, chunkVars, sysVars>>

SanNext == SanApply

SpecSan == SanInit /\ [][SanNext]_vars

ValidName(n) ==
    /\ \A i \in 1..Len(n) : n[i] \in NameSafe
    /\ \A i \in 1..(Len(n) - 1) : ~(n[i] = "-" /\ n[i + 1] = "-")
    /\ n # <<>> => (n[1] # "-" /\ n[Len(n)] # "-")
    /\ Len(n) <= AzureNameLimit

\* C7: the result of sanitize_azure_name has only characters of [a-z0-9-],
\* no two consecutive hyphens, no leading or trailing hyphen, and at most
\* 128 characters.
C7_SanitizedValid == Len(outs) >= 1 => ValidName(outs[1])

\* an input cut at the limit right after a separator
C7_Witness ==
    /\ Len(outs) >= 1
    /\ Len(name) > AzureNameLimit
    /\ name[AzureNameLimit] \in {"_", " ", "!"}
    /\ Len(outs[1]) = AzureNameLimit - 1

\* C8: sanitize_azure_name(sanitize_azure_name(x)) = sanitize_azure_name(x)
C8_Idempotent == Len(outs) = 2 => outs[2] = outs[1]

C8_Witness ==
    /\ Len(outs) = 2
    /\ Len(name) > AzureNameLimit
    /\ Len(outs[1]) < Len(name)
    /\ outs[1] # <<>>
    /\ \E i \in 1..Len(name) : name[i] \notin NameSafe

(***************************************************************************)
(* Tenants, collaborators and the ingestion pipeline                       *)
(* (src/src/manage_org.py, src/src/search_index.py,                        *)
(*  src/src/document_processor.py, src/src/mongodb_service.py)             *)
(***************************************************************************)
DEFAULT_CHUNK_SIZE == 800
DEFAULT_CHUNK_OVERLAP == 100
SUPPORTED_EXTENSIONS == {".txt", ".pdf", ".docx", ".csv", ".pptx", ".xlsx", ".xls"}

\* tenant identifiers a caller may pass; the first two share a canonical name
OrgIds == {<<"O", "r", "g", "_", "A">>, <<"o", "r", "g", "-", "a">>, <<"b">>}

\* directory entries: file name, extension and the text extraction yields
FileNotes == [filename |-> <<"n", ".", "t", "x", "t">>, ext |-> ".txt",
              content |-> <<"a", " ", "a", "a">>]
FileBlank == [filename |-> <<"e", ".", "t", "x", "t">>, ext |-> ".txt",
              content |-> <<" ", "\n">>]
FileImage == [filename |-> <<"i", ".", "p", "n", "g">>, ext |-> ".png",
              content |-> <<"a">>]

\* two names of one directory that differ only in '.' against '_'
FileDotted == [filename |-> <<"n", ".", "n", ".", "t", "x", "t">>, ext |-> ".txt",
               content |-> <<"a">>]
FileUnder == [filename |-> <<"n", "_", "n", ".", "t", "x", "t">>, ext |-> ".txt",
              content |-> <<"a", "a">>]

Listings == {<<>>, <<FileBlank>>, <<FileNotes>>, <<FileImage, FileNotes, FileBlank>>}

\* the tenant and the directories of the ingestion runs of SpecRun
RunOrgs == {<<"b">>}
RunListings == {<<>>, <<FileBlank>>, <<FileNotes>>, <<FileDotted, FileUnder>>}

\* what scrape_website returns for a URL: pages with url, title, content
PageHome == [url |-> <<"h", ":", "/", "/", "a", ".", "b">>, title |-> <<"H">>,
             content |-> <<"a", " ", "a", "a">>]
PageAlias == [url |-> <<"h", ":", "/", "/", "a", "/", "b">>, title |-> <<"A">>,
              content |-> <<"a", "a">>]
PageBlank == [url |-> <<"h", ":", "/", "/", "e">>, title |-> <<"E">>,
              content |-> <<" ">>]

Scrapes == {<<>>, <<PageBlank>>, <<PageHome, PageAlias>>}

\* (chunk_size, overlap) pairs a caller may pass
ChunkConfigs == {<<DEFAULT_CHUNK_SIZE, DEFAULT_CHUNK_OVERLAP>>, <<3, 0>>}

Statuses == {"PENDING", "PROCESSING", "COMPLETED", "FAILED"}

DigitChars == <<"0", "1", "2", "3", "4", "5", "6", "7", "8", "9">>

\* DocId with the number of the call in place of a deterministic suffix
DocId_PerRun(org, filename, i) ==
    sanitize_azure_name(org) \o <<"_">> \o ReplaceChar(filename, ".", "_")
        \o <<"_">> \o <<DigitChars[i + 1]>> \o <<"_">> \o <<DigitChars[ncalls + 1]>>

\* f"{safe_org_id}_{filename.replace('.', '_')}_{i}" (document_processor.py:165)
DocId(org, filename, i) ==
    sanitize_azure_name(org) \o <<"_">> \o ReplaceChar(filename, ".", "_")
        \o <<"_">> \o <<DigitChars[i + 1]>>

\* the index document and the metadata record built for chunk i (0-based)
\* of one file (document_processor.py:161-192)
IndexDoc(org, f, chs, i) ==
    [index |-> sanitize_azure_name(org), id |-> DocId(org, f.filename, i),
     content |-> chs[i + 1], filepath |-> f.filename, organization_id |-> org,
     blob_name |-> f.filename]

MongoDoc(org, f, chs, i) ==
    [title |-> <<f.filename, i + 1>>, content |-> chs[i + 1], filename |-> f.filename,
     chunk_index |-> i, total_chunks |-> Len(chs), organization_id |-> org]

\* the files of a listing the loop does not skip at line 144
Supported(files) == SelectSeq(files, LAMBDA f : f.ext \in SUPPORTED_EXTENSIONS)

\* the chunk ordinals of chs whose chunk is not blank (line 162)
RECURSIVE KeptOrdinals(_, _)
KeptOrdinals(chs, i) ==
    IF i >= Len(chs) THEN <<>>
    ELSE (IF Strip(chs[i + 1]) # <<>> THEN <<i>> ELSE <<>>) \o KeptOrdinals(chs, i + 1)

\* lines 140-194 over the whole listing: the accumulated index documents
\* (mongo = FALSE) or metadata records (mongo = TRUE)
RECURSIVE BuildDocs(_, _, _, _)
BuildDocs(org, files, cfg, mongo) ==
    IF files = <<>> THEN <<>>
    ELSE LET f == Head(files)
             chs == chunk_text(f.content, cfg[1], cfg[2]).chunks
             ords == KeptOrdinals(chs, 0)
             mine == IF f.ext \notin SUPPORTED_EXTENSIONS \/ Strip(f.content) = <<>>
                     THEN <<>>
                     ELSE [k \in 1..Len(ords) |->
                             IF mongo THEN MongoDoc(org, f, chs, ords[k])
                             ELSE IndexDoc(org, f, chs, ords[k])]
         IN  mine \o BuildDocs(org, Tail(files), cfg, mongo)

\* s.replace(pat, r) for a pattern of any length, left to right
RECURSIVE ReplaceSub(_, _, _)
ReplaceSub(s, pat, r) ==
    IF Len(s) < Len(pat) THEN s
    ELSE IF SubSeq(s, 1, Len(pat)) = pat
         THEN r \o ReplaceSub(SubSeq(s, Len(pat) + 1, Len(s)), pat, r)
         ELSE <<Head(s)>> \o ReplaceSub(Tail(s), pat, r)

\* url.replace('://', '_').replace('/', '_') (web_scraper.py:251, 255)
UrlKey(url) == ReplaceChar(ReplaceSub(url, <<":", "/", "/">>, <<"_">>), "/", "_")

\* f"{safe_org_id}_web_{url.replace('://', '_').replace('/', '_').replace('.', '_')}_{i}"
WebDocId(org, url, i) ==
    sanitize_azure_name(org) \o <<"_", "w", "e", "b", "_">>
        \o ReplaceChar(UrlKey(url), ".", "_") \o <<"_">> \o <<DigitChars[i + 1]>>

\* the index document and the metadata record built for chunk i (0-based)
\* of one scraped page (web_scraper.py:247-276)
WebIndexDoc(org, p, chs, i) ==
    [index |-> sanitize_azure_name(org), id |-> WebDocId(org, p.url, i),
     content |-> chs[i + 1], filepath |-> p.url, organization_id |-> org,
     blob_name |-> <<"w", "e", "b", "_", "c", "o", "n", "t", "e", "n", "t", "_">>
                       \o UrlKey(p.url)]

WebMongoDoc(org, p, chs, i) ==
    [title |-> <<p.title, i + 1>>, content |-> chs[i + 1], url |-> p.url,
     chunk_index |-> i, total_chunks |-> Len(chs), organization_id |-> org]

\* web_scraper.py:233-278 over the scraped pages: the accumulated index
\* documents (mongo = FALSE) or metadata records (mongo = TRUE)
RECURSIVE BuildWebDocs(_, _, _, _)
BuildWebDocs(org, pages, cfg, mongo) ==
    IF pages = <<>> THEN <<>>
    ELSE LET p == Head(pages)
             chs == chunk_text(p.content, cfg[1], cfg[2]).chunks
             ords == KeptOrdinals(chs, 0)
             mine == IF Strip(p.content) = <<>> THEN <<>>
                     ELSE [k \in 1..Len(ords) |->
                             IF mongo THEN WebMongoDoc(org, p, chs, ords[k])
                             ELSE WebIndexDoc(org, p, chs, ords[k])]
         IN  mine \o BuildWebDocs(org, Tail(pages), cfg, mongo)

\* chunk_text returns for every page the loop chunks
PagesChunked(pages, cfg) ==
    \A k \in 1..Len(pages) :
        Strip(pages[k].content) # <<>>
            => chunk_text(pages[k].content, cfg[1], cfg[2]).returns

\* chunk_text returns for every file the loop chunks
AllChunked(files, cfg) ==
    \A k \in 1..Len(files) :
        (files[k].ext \in SUPPORTED_EXTENSIONS /\ Strip(files[k].content) # <<>>)
            => chunk_text(files[k].content, cfg[1], cfg[2]).returns

SysInit == ChunkIdle /\ SanIdle /\ SysIdle

\* create_org with create_search_index creating the index unconditionally
create_org_NoExistsCheck(org) ==
    /\ pc = "idle"
    /\ ncalls < MaxCalls
    /\ ncalls' = ncalls + 1
    /\ \E fail \in {"none", "list_index_names", "create_index", "create_container"} :
         LET cname == sanitize_azure_name(org)
             exists == cname \in indexes
             index_reqs == IF fail = "list_index_names"
                           THEN <<"list_index_names">>
                           ELSE <<"list_index_names", "create_index">>
             index_ok == fail \notin {"list_index_names", "create_index"}
         IN  /\ fail = "create_index" => ~exists
             /\ indexes' = IF index_ok THEN indexes \cup {cname} ELSE indexes
             /\ containers' = IF fail = "none" THEN containers \cup {cname} ELSE containers
             /\ served' = IF fail = "none" THEN served \cup {org} ELSE served
             /\ ret' = [NoRet EXCEPT
                          !.op = "create_org", !.org = org,
                          !.status = IF fail = "none" THEN "success" ELSE "error",
                          !.exc = IF fail = "none" THEN "none" ELSE fail \o " failed",
                          !.issued = IF index_ok THEN index_reqs \o <<"create_container">>
                                     ELSE index_reqs]
    /\ UNCHANGED <<index_docs, blobs, sources, kdocs, next_id, pc, run>>
    /\ UNCHANGED <<chunkVars, sanVars>>

\* create_org (manage_org.py:7-35) with create_search_index
\* (search_index.py:21-82) and get_container_client (clients.py:137-158).
\* fail names the collaborator request that raises, if any; issued lists
\* the requests the call made. create_container on an existing container
\* raises ResourceExistsError, which get_container_client absorbs.
create_org(org) ==
    /\ pc = "idle"
    /\ ncalls < MaxCalls
    /\ ncalls' = ncalls + 1
    /\ \E fail \in {"none", "list_index_names", "create_index", "create_container"} :
         LET cname == sanitize_azure_name(org)
             exists == cname \in indexes
             index_reqs == IF exists \/ fail = "list_index_names"
                           THEN <<"list_index_names">>
                           ELSE <<"list_index_names", "create_index">>
             index_ok == fail \notin {"list_index_names", "create_index"}
         IN  /\ fail = "create_index" => ~exists
             /\ indexes' = IF index_ok THEN indexes \cup {cname} ELSE indexes
             /\ containers' = IF fail = "none" THEN containers \cup {cname} ELSE containers
             /\ served' = IF fail = "none" THEN served \cup {org} ELSE served
             /\ ret' = [NoRet EXCEPT
                          !.op = "create_org", !.org = org,
                          !.status = IF fail = "none" THEN "success" ELSE "error",
                          !.exc = IF fail = "none" THEN "none" ELSE fail \o " failed",
                          !.issued = IF index_ok THEN index_reqs \o <<"create_container">>
                                     ELSE index_reqs]
    /\ UNCHANGED <<index_docs, blobs, sources, kdocs, next_id, pc, run>>
    /\ UNCHANGED <<chunkVars, sanVars>>

Raised(op, org, args, upsert, exc) ==
    [NoRet EXCEPT !.op = op, !.org = org, !.args = args, !.status = "raised",
                  !.upsert = upsert, !.exc = exc]

\* the supported files up to and including the first one that yields a chunk
RECURSIVE UpToFirstChunked(_)
UpToFirstChunked(files) ==
    IF files = <<>> THEN <<>>
    ELSE IF Strip(Head(files).content) # <<>> THEN <<Head(files)>>
    ELSE <<Head(files)>> \o UpToFirstChunked(Tail(files))

BlobsOf(org, files) == {<<sanitize_azure_name(org), files[k].filename>> : k \in 1..Len(files)}

\* process_and_upload_org_files, lines 126-196: the loop over the directory
\* (upload, extract, chunk, embed). fail names the collaborator call of the
\* loop that raises: the object store or the embedding service.
IngestStart(org, files, cfg) ==
    /\ pc = "idle"
    /\ ncalls < MaxCalls
    /\ AllChunked(files, cfg)
    /\ ncalls' = ncalls + 1
    /\ LET sup == Supported(files)
           docs == BuildDocs(org, files, cfg, FALSE)
           mdocs == BuildDocs(org, files, cfg, TRUE)
       IN  \/ /\ sup # <<>>
              /\ ret' = Raised("ingest", org, <<files, cfg>>, "none", "upload_blob failed")
              /\ UNCHANGED <<containers, blobs, pc, run>>
           \/ /\ docs # <<>>
              /\ containers' = containers \cup {sanitize_azure_name(org)}
              /\ blobs' = blobs \cup BlobsOf(org, UpToFirstChunked(sup))
              /\ ret' = Raised("ingest", org, <<files, cfg>>, "none", "embeddings failed")
              /\ UNCHANGED <<pc, run>>
           \/ /\ containers' = IF sup # <<>> THEN containers \cup {sanitize_azure_name(org)}
                                ELSE containers
              /\ blobs' = blobs \cup BlobsOf(org, sup)
              /\ run' = [NoRun EXCEPT !.op = "ingest", !.org = org, !.args = <<files, cfg>>,
                                      !.documents = docs, !.mongo_documents = mdocs]
              /\ pc' = IF docs # <<>> THEN "upsert" ELSE "return"
              /\ UNCHANGED ret
    /\ UNCHANGED <<indexes, index_docs, sources, kdocs, next_id, served>>
    /\ UNCHANGED <<chunkVars, sanVars>>

\* scrape_and_process_website (web_scraper.py:331-360) up to the end of the
\* page loop of process_and_upload_scraped_content (lines 220-280):
\* scrape_website raises, or returns nothing and line 350 raises ValueError,
\* or the embedding service raises in the loop, or the loop completes. The
\* rest of process_and_upload_scraped_content (lines 282-329) repeats
\* process_and_upload_org_files line for line and takes the same steps.
ScrapeStart(org, scraped_content, cfg) ==
    /\ pc = "idle"
    /\ ncalls < MaxCalls
    /\ PagesChunked(scraped_content, cfg)
    /\ ncalls' = ncalls + 1
    /\ LET docs == BuildWebDocs(org, scraped_content, cfg, FALSE)
           mdocs == BuildWebDocs(org, scraped_content, cfg, TRUE)
           args == <<scraped_content, cfg>>
       IN  \/ /\ ret' = Raised("scrape", org, args, "none", "scrape_website failed")
              /\ UNCHANGED <<pc, run>>
           \/ /\ scraped_content = <<>>
              /\ ret' = Raised("scrape", org, args, "none", "ValueError")
              /\ UNCHANGED <<pc, run>>
           \/ /\ docs # <<>>
              /\ ret' = Raised("scrape", org, args, "none", "embeddings failed")
              /\ UNCHANGED <<pc, run>>
           \/ /\ scraped_content # <<>>
              /\ run' = [NoRun EXCEPT !.op = "scrape", !.org = org, !.args = args,
                                      !.documents = docs, !.mongo_documents = mdocs]
              /\ pc' = IF docs # <<>> THEN "upsert" ELSE "return"
              /\ UNCHANGED ret
    /\ UNCHANGED <<storeVars, served>>
    /\ UNCHANGED <<chunkVars, sanVars>>

\* merge-or-upload: a document replaces the stored one with the same key
Upsert(stored, docs) ==
    {d \in stored : ~\E k \in 1..Len(docs) : docs[k].index = d.index /\ docs[k].id = d.id}
    \cup {docs[k] : k \in {j \in 1..Len(docs) :
              ~\E l \in (j + 1)..Len(docs) : docs[l].index = docs[j].index
                                               /\ docs[l].id = docs[j].id}}

\* IngestUpsert with a failed upsert caught and the run carried on
IngestUpsert_Swallowed ==
    /\ pc = "upsert"
    /\ \/ /\ sanitize_azure_name(run.org) \in indexes
          /\ index_docs' = Upsert(index_docs, run.documents)
          /\ run' = [run EXCEPT !.upsert = "ok"]
       \/ /\ run' = [run EXCEPT !.upsert = "failed"]
          /\ UNCHANGED index_docs
    /\ pc' = "pfb_create"
    /\ UNCHANGED ret
    /\ UNCHANGED <<indexes, containers, blobs, sources, kdocs, next_id, ncalls, served>>
    /\ UNCHANGED <<chunkVars, sanVars>>

\* lines 199-212: the one upsert of the accumulated documents; it raises
\* when the index service fails or the tenant's index does not exist
IngestUpsert ==
    /\ pc = "upsert"
    /\ \/ /\ sanitize_azure_name(run.org) \in indexes
          /\ index_docs' = Upsert(index_docs, run.documents)
          /\ run' = [run EXCEPT !.upsert = "ok"]
          /\ pc' = "pfb_create"
          /\ UNCHANGED ret
       \/ /\ ret' = Raised(run.op, run.org, run.args, "failed", "upsert failed")
          /\ run' = NoRun
          /\ pc' = "idle"
          /\ UNCHANGED index_docs
    /\ UNCHANGED <<indexes, containers, blobs, sources, kdocs, next_id, ncalls, served>>
    /\ UNCHANGED <<chunkVars, sanVars>>

\* KnowledgeSource.create_document (mongodb_client.py:94-122)
NewSource(org) ==
    [organizationId |-> org, status |-> "PENDING", errorMessage |-> "None",
     documentsProcessed |-> 0, documentsFailed |-> 0,
     processStartedAt |-> "None", lastProcessedAt |-> "None"]

NoCount == -1

\* the $set of update_knowledge_source_status (mongodb_service.py:84-109)
\* applied to a stored source; "None" and NoCount stand for arguments left
\* at their default None
StatusUpdate(src, status, error_message, documents_processed, documents_failed) ==
    [src EXCEPT
       !.status = status,
       !.errorMessage = IF status = "COMPLETED" THEN "None"
                        ELSE IF error_message # "None" THEN error_message ELSE @,
       !.documentsProcessed = IF documents_processed # NoCount THEN documents_processed ELSE @,
       !.documentsFailed = IF documents_failed # NoCount THEN documents_failed ELSE @,
       !.processStartedAt = IF status = "PROCESSING" THEN "set" ELSE @,
       !.lastProcessedAt = IF status = "COMPLETED" THEN "set" ELSE @]

PfbFrame ==
    /\ UNCHANGED <<indexes, index_docs, containers, blobs, ncalls, ret, served>>
    /\ UNCHANGED <<chunkVars, sanVars>>

\* process_file_batch, create_knowledge_source (mongodb_service.py:344-350):
\* insert_one stores the PENDING source, or raises out of process_file_batch
PfbCreate ==
    /\ pc = "pfb_create"
    /\ \/ /\ sources' = sources @@ (next_id :> NewSource(run.org))
          /\ next_id' = next_id + 1
          /\ run' = [run EXCEPT !.source_id = next_id]
          /\ pc' = "pfb_processing"
       \/ /\ run' = [run EXCEPT !.meta = "failed", !.raised = "insert_one failed"]
          /\ pc' = "return"
          /\ UNCHANGED <<sources, next_id>>
    /\ UNCHANGED kdocs
    /\ PfbFrame

\* lines 353-357: the PROCESSING update, outside the try block
PfbProcessing ==
    /\ pc = "pfb_processing"
    /\ \/ /\ sources' = [sources EXCEPT ![run.source_id] =
                              StatusUpdate(@, "PROCESSING", "None", NoCount, NoCount)]
          /\ pc' = "pfb_insert"
          /\ UNCHANGED run
       \/ /\ run' = [run EXCEPT !.meta = "failed", !.raised = "update_one failed"]
          /\ pc' = "return"
          /\ UNCHANGED sources
    /\ UNCHANGED <<kdocs, next_id>>
    /\ PfbFrame

\* the two representations of a record id: the ObjectId the store assigns
\* as _id, and str(inserted_id), which create_knowledge_source returns
\* (mongodb_service.py:39). A filter value matches a stored value only
\* when both have the same type.
ObjectId(id) == <<"ObjectId", id>>
StrId(id) == <<"str", id>>

\* KnowledgeDocument.create_document for the k-th submitted record
\* (mongodb_client.py:150-176); knowledge_source_id is stored as passed,
\* the string process_file_batch holds
KDoc(sid, org, data, k) ==
    [knowledgeSourceId |-> StrId(sid), organizationId |-> org, position |-> k,
     title |-> data[k].title, content |-> data[k].content, status |-> "COMPLETED"]

\* lines 361-365: insert_many stores all the records, or raises after it
\* has stored the first n of them
PfbInsert ==
    /\ pc = "pfb_insert"
    /\ \E n \in 0..Len(run.mongo_documents) :
         /\ kdocs' = kdocs \cup {KDoc(run.source_id, run.org, run.mongo_documents, k) : k \in 1..n}
         /\ IF n = Len(run.mongo_documents)
            THEN pc' = "pfb_completed" /\ UNCHANGED run
            ELSE pc' = "pfb_failed" /\ run' = [run EXCEPT !.exc = "insert_many failed"]
    /\ UNCHANGED <<sources, next_id>>
    /\ PfbFrame

\* lines 368-377: the COMPLETED update and the return, or the update raises
\* into the except block
PfbCompleted ==
    /\ pc = "pfb_completed"
    /\ \/ /\ sources' = [sources EXCEPT ![run.source_id] =
                              StatusUpdate(@, "COMPLETED", "None", Len(run.mongo_documents), 0)]
          /\ run' = [run EXCEPT !.meta = "ok"]
          /\ pc' = "return"
       \/ /\ run' = [run EXCEPT !.exc = "update_one failed"]
          /\ pc' = "pfb_failed"
          /\ UNCHANGED sources
    /\ UNCHANGED <<kdocs, next_id>>
    /\ PfbFrame

\* lines 379-389: the FAILED update and the re-raise of the caught
\* exception; when the update raises itself, its exception leaves the
\* handler instead. Either way process_file_batch raises to its caller
PfbFailed ==
    /\ pc = "pfb_failed"
    /\ \/ /\ sources' = [sources EXCEPT ![run.source_id] =
                              StatusUpdate(@, "FAILED", run.exc, 0, Len(run.mongo_documents))]
          /\ run' = [run EXCEPT !.meta = "failed", !.raised = run.exc]
       \/ /\ UNCHANGED sources
          /\ run' = [run EXCEPT !.meta = "failed", !.raised = "update_one failed in handler"]
    /\ pc' = "return"
    /\ UNCHANGED <<kdocs, next_id>>
    /\ PfbFrame

\* document_processor.py:234-245: the except block only prints, and the
\* function returns None whether the metadata was stored or not
IngestReturn ==
    /\ pc = "return"
    /\ ret' = [NoRet EXCEPT !.op = run.op, !.org = run.org, !.args = run.args,
                            !.status = "returned", !.upsert = run.upsert,
                            !.meta = run.meta]
    /\ served' = IF run.upsert = "ok" THEN served \cup {run.org} ELSE served
    /\ run' = NoRun
    /\ pc' = "idle"
    /\ UNCHANGED <<storeVars, ncalls>>
    /\ UNCHANGED <<chunkVars, sanVars>>

\* update_knowledge_source_status called on its own
\* (mongodb_service.py:73-109) with a status and the other arguments left
\* at their defaults
update_knowledge_source_status(source_id, status) ==
    /\ pc = "idle"
    /\ ncalls < MaxCalls
    /\ ncalls' = ncalls + 1
    /\ source_id \in DOMAIN sources
    /\ sources' = [sources EXCEPT ![source_id] =
                      StatusUpdate(@, status, "None", NoCount, NoCount)]
    /\ ret' = [NoRet EXCEPT !.op = "update_status", !.org = sources[source_id].organizationId,
                            !.status = IF sources'[source_id] # sources[source_id]
                                       THEN "True" ELSE "False"]
    /\ UNCHANGED <<indexes, index_docs, containers, blobs, kdocs, next_id, pc, run, served>>
    /\ UNCHANGED <<chunkVars, sanVars>>

\* delete_knowledge_source (mongodb_service.py:112-130): delete_many on the
\* documents, then delete_one on the source; sources are keyed by their
\* _id, so key k stands for ObjectId(k). fail names the request that raises.
delete_knowledge_source(source_id, organization_id) ==
    /\ pc = "idle"
    /\ ncalls < MaxCalls
    /\ ncalls' = ncalls + 1
    /\ source_id \in DOMAIN sources
    /\ \E fail \in {"none", "delete_many", "delete_one"} :
         LET doomed == {d \in kdocs : /\ d.knowledgeSourceId = ObjectId(source_id)
                                      /\ d.organizationId = organization_id}
             hit == {k \in DOMAIN sources : /\ ObjectId(k) = ObjectId(source_id)
                                            /\ sources[k].organizationId = organization_id}
         IN  /\ kdocs' = IF fail = "delete_many" THEN kdocs ELSE kdocs \ doomed
             /\ sources' = IF fail = "none"
                            THEN [k \in (DOMAIN sources) \ hit |-> sources[k]]
                            ELSE sources
             /\ ret' = [NoRet EXCEPT
                          !.op = "delete_knowledge_source", !.org = organization_id,
                          !.args = <<source_id>>,
                          !.status = IF fail # "none" THEN "raised"
                                     ELSE IF hit # {} THEN "True" ELSE "False",
                          !.exc = IF fail = "none" THEN "none" ELSE fail \o " failed"]
    /\ UNCHANGED <<indexes, index_docs, containers, blobs, next_id, pc, run, served>>
    /\ UNCHANGED <<chunkVars, sanVars>>

Next ==
    \/ \E org \in OrgIds : create_org(org)
    \/ \E org \in OrgIds, files \in Listings, cfg \in ChunkConfigs : IngestStart(org, files, cfg)
    \/ IngestUpsert
    \/ PfbCreate
    \/ PfbProcessing
    \/ PfbInsert
    \/ PfbCompleted
    \/ PfbFailed
    \/ IngestReturn
    \/ \E sid \in 1..MaxCalls, st \in Statuses : update_knowledge_source_status(sid, st)

Spec == SysInit /\ [][Next]_vars

\* one tenant's ingestion runs, of directories and of scraped sites, and
\* the deletion of the Knowledge Sources they create
NextRun ==
    \/ \E org \in RunOrgs : create_org(org)
    \/ \E org \in RunOrgs, files \in RunListings, cfg \in ChunkConfigs :
          IngestStart(org, files, cfg)
    \/ \E org \in RunOrgs, scraped \in Scrapes, cfg \in ChunkConfigs :
          ScrapeStart(org, scraped, cfg)
    \/ IngestUpsert
    \/ PfbCreate
    \/ PfbProcessing
    \/ PfbInsert
    \/ PfbCompleted
    \/ PfbFailed
    \/ IngestReturn
    \/ \E sid \in 1..MaxCalls, org \in OrgIds : delete_knowledge_source(sid, org)

SpecRun == SysInit /\ [][NextRun]_vars

(***************************************************************************)
(* Tenant lifecycle (src/src/manage_org.py) with delete_search_index        *)
(* (src/src/search_index.py) and the object-store helpers                  *)
(* (src/src/document_processor.py, src/src/clients.py)                     *)
(***************************************************************************)
\* the files a caller may upload on their own
UploadFiles == {FileNotes, FileBlank}

OrgFrame ==
    /\ UNCHANGED <<sources, kdocs, next_id, pc, run, served>>
    /\ UNCHANGED <<chunkVars, sanVars>>

\* delete_org with the ResourceNotFoundError of delete_container left
\* uncaught by the inner try
delete_org_NotFoundUncaught(org_id) ==
    /\ pc = "idle"
    /\ ncalls < MaxCalls
    /\ ncalls' = ncalls + 1
    /\ \E fail \in {"none", "list_index_names", "delete_index", "delete_container"} :
         LET cname == sanitize_azure_name(org_id)
             exists == cname \in indexes
             index_reqs == IF exists /\ fail # "list_index_names"
                           THEN <<"list_index_names", "delete_index">>
                           ELSE <<"list_index_names">>
             index_gone == exists /\ fail \notin {"list_index_names", "delete_index"}
             missing == cname \notin containers
         IN  /\ fail = "delete_index" => exists
             /\ fail = "delete_container" => ~missing
             /\ indexes' = IF index_gone THEN indexes \ {cname} ELSE indexes
             /\ index_docs' = IF index_gone THEN {d \in index_docs : d.index # cname}
                               ELSE index_docs
             /\ containers' = IF fail = "delete_container" THEN containers
                               ELSE containers \ {cname}
             /\ blobs' = IF fail = "delete_container" THEN blobs
                          ELSE {b \in blobs : b[1] # cname}
             /\ ret' = [NoRet EXCEPT
                          !.op = "delete_org", !.org = org_id,
                          !.status = IF fail = "delete_container" \/ missing
                                     THEN "error" ELSE "success",
                          !.exc = IF fail # "none" THEN fail \o " failed"
                                  ELSE IF missing THEN "ResourceNotFoundError" ELSE "none",
                          !.issued = index_reqs \o <<"delete_container">>]
    /\ OrgFrame

\* delete_org (manage_org.py:38-74) with delete_search_index
\* (search_index.py:85-103). fail names the collaborator request that
\* raises, if any: an exception of list_index_names or delete_index is
\* caught and printed inside delete_search_index, ResourceNotFoundError of
\* delete_container is caught by the inner try, any other exception of
\* delete_container by the outer one. Deleting an index drops its
\* documents, deleting a container its blobs.
delete_org(org_id) ==
    /\ pc = "idle"
    /\ ncalls < MaxCalls
    /\ ncalls' = ncalls + 1
    /\ \E fail \in {"none", "list_index_names", "delete_index", "delete_container"} :
         LET cname == sanitize_azure_name(org_id)
             exists == cname \in indexes
             index_reqs == IF exists /\ fail # "list_index_names"
                           THEN <<"list_index_names", "delete_index">>
                           ELSE <<"list_index_names">>
             index_gone == exists /\ fail \notin {"list_index_names", "delete_index"}
         IN  /\ fail = "delete_index" => exists
             /\ indexes' = IF index_gone THEN indexes \ {cname} ELSE indexes
             /\ index_docs' = IF index_gone THEN {d \in index_docs : d.index # cname}
                               ELSE index_docs
             /\ containers' = IF fail = "delete_container" THEN containers
                               ELSE containers \ {cname}
             /\ blobs' = IF fail = "delete_container" THEN blobs
                          ELSE {b \in blobs : b[1] # cname}
             /\ ret' = [NoRet EXCEPT
                          !.op = "delete_org", !.org = org_id,
                          !.status = IF fail = "delete_container" THEN "error" ELSE "success",
                          !.exc = IF fail = "none" THEN "none" ELSE fail \o " failed",
                          !.issued = index_reqs \o <<"delete_container">>]
    /\ OrgFrame

\* list_orgs (manage_org.py:77-106): the names of the containers and of the
\* indexes, without duplicates
list_orgs == containers \cup indexes

\* a call of list_orgs; an exception of either listing leaves the function
ListOrgs ==
    /\ pc = "idle"
    /\ ncalls < MaxCalls
    /\ ncalls' = ncalls + 1
    /\ \E fail \in {"none", "list_containers", "list_index_names"} :
         ret' = [NoRet EXCEPT
                   !.op = "list_orgs",
                   !.status = IF fail = "none" THEN "returned" ELSE "raised",
                   !.exc = IF fail = "none" THEN "none" ELSE fail \o " failed",
                   !.results = IF fail = "none" THEN <<list_orgs>> ELSE <<>>,
                   !.issued = IF fail = "list_containers" THEN <<"list_containers">>
                              ELSE <<"list_containers", "list_index_names">>]
    /\ UNCHANGED storeVars
    /\ OrgFrame

\* get_org_info (manage_org.py:109-142): list_org_blobs
\* (document_processor.py:248-260) obtains the container through
\* get_container_client (clients.py:137-158), which issues create_container
\* and absorbs ResourceExistsError; then the index names are listed. Any
\* exception gives the 'error' result.
get_org_info(org_id) ==
    /\ pc = "idle"
    /\ ncalls < MaxCalls
    /\ ncalls' = ncalls + 1
    /\ \E fail \in {"none", "create_container", "list_blobs", "list_index_names"} :
         LET cname == sanitize_azure_name(org_id)
             blob_count == Cardinality({b \in blobs : b[1] = cname})
             index_exists == cname \in indexes
         IN  /\ containers' = IF fail = "create_container" THEN containers
                               ELSE containers \cup {cname}
             /\ ret' = [NoRet EXCEPT
                          !.op = "get_org_info", !.org = org_id,
                          !.status = IF fail # "none" THEN "error"
                                     ELSE IF blob_count > 0 \/ index_exists THEN "active"
                                     ELSE "inactive",
                          !.exc = IF fail = "none" THEN "none" ELSE fail \o " failed",
                          !.results = IF fail # "none" THEN <<>>
                                      ELSE <<[blob_count |-> blob_count,
                                              search_index_exists |-> index_exists]>>,
                          !.issued = IF fail = "create_container" THEN <<"create_container">>
                                     ELSE IF fail = "list_blobs"
                                     THEN <<"create_container", "list_blobs">>
                                     ELSE <<"create_container", "list_blobs",
                                            "list_index_names">>]
    /\ UNCHANGED <<indexes, index_docs, blobs>>
    /\ OrgFrame

\* upload_file_to_org_blob (document_processor.py:22-47) for an existing
\* file: the container is obtained through get_container_client, then the
\* blob is written under the file's base name, replacing one of that name
upload_file_to_org_blob(org_id, f) ==
    /\ pc = "idle"
    /\ ncalls < MaxCalls
    /\ ncalls' = ncalls + 1
    /\ \E fail \in {"none", "create_container", "upload_blob"} :
         LET cname == sanitize_azure_name(org_id)
         IN  /\ containers' = IF fail = "create_container" THEN containers
                               ELSE containers \cup {cname}
             /\ blobs' = IF fail = "none" THEN blobs \cup {<<cname, f.filename>>} ELSE blobs
             /\ ret' = [NoRet EXCEPT
                          !.op = "upload_file_to_org_blob", !.org = org_id,
                          !.args = <<f>>,
                          !.status = IF fail = "none" THEN "returned" ELSE "raised",
                          !.exc = IF fail = "none" THEN "none" ELSE fail \o " failed",
                          !.answer = IF fail = "none" THEN f.filename ELSE <<>>]
    /\ UNCHANGED <<indexes, index_docs>>
    /\ OrgFrame

NextOrg ==
    \/ \E org \in OrgIds : create_org(org)
    \/ \E org \in OrgIds : delete_org(org)
    \/ \E org \in OrgIds : get_org_info(org)
    \/ ListOrgs
    \/ \E org \in OrgIds, f \in UploadFiles : upload_file_to_org_blob(org, f)

SpecOrg == SysInit /\ [][NextOrg]_vars

(***************************************************************************)
(* Text extraction (src/src/file_processors.py), the settings of the       *)
(* collaborators (src/src/config.py, src/src/clients.py) and add_documents *)
(* (src/usage.py)                                                          *)
(***************************************************************************)
\* extract_text_from_file with the bytes of an unreadable file handed on
\* as its text
extract_text_from_file_RawOnError(raw) ==
    IF raw.ext \notin SUPPORTED_EXTENSIONS THEN <<>>
    ELSE IF raw.ext = ".txt" THEN raw.text
    ELSE Strip(raw.text)

\* extract_text_from_file (file_processors.py:217-249) for a file on disk
\* with extension ext: text is what a reader of the format finds in it, and
\* readable is FALSE when the reader raises (malformed file, unreadable
\* inner structure). Every reader catches its exceptions and returns "";
\* the readers other than the .txt one strip their result.
extract_text_from_file(raw) ==
    IF raw.ext \notin SUPPORTED_EXTENSIONS THEN <<>>
    ELSE IF ~raw.readable THEN <<>>
    ELSE IF raw.ext = ".txt" THEN raw.text
    ELSE Strip(raw.text)

\* a malformed PDF
FileBroken == [filename |-> <<"m", ".", "p", "d", "f">>, ext |-> ".pdf",
               content |-> extract_text_from_file(
                               [ext |-> ".pdf", readable |-> FALSE, text |-> <<"a", "a">>])]
\* a well-formed document whose text is padded with whitespace
FileReport == [filename |-> <<"r", ".", "d", "o", "c", "x">>, ext |-> ".docx",
               content |-> extract_text_from_file(
                               [ext |-> ".docx", readable |-> TRUE, text |-> <<" ", "a", "\n">>])]

\* the directories of the ingestion runs of SpecFiles
FileListings ==
    {<<FileImage>>, <<FileBroken>>, <<FileBroken, FileReport>>,
     <<FileNotes, FileBlank, FileBroken, FileReport>>}

\* the settings of config.py whose absence a client factory of clients.py
\* reports; the last stands for both storage settings being unset
SearchSettings == {"AZURE_SEARCH_SERVICE_ENDPOINT", "AZURE_SEARCH_ADMIN_KEY"}
OpenAISettings == {"AZURE_OPENAI_API_KEY and AZURE_OPENAI_ENDPOINT"}
StorageSettings == {"Either AZURE_STORAGE_CONNECTION_STRING or AZURE_STORAGE_ACCOUNT_NAME"}
Settings == SearchSettings \cup OpenAISettings \cup StorageSettings

\* the ValueError a client factory raises for an unset setting
MustBeSet(setting) == setting \o " must be set"

\* process_and_upload_org_files, lines 126-196, in a process where one
\* setting is unset. get_search_client (line 133) raises for a search
\* setting before the loop. get_blob_service_client raises inside
\* upload_file_to_org_blob for the first supported file (line 149).
\* get_openai_client raises inside generate_embeddings (line 170), for the
\* first chunk, after the files up to that one were uploaded. A run that
\* never reaches the failing factory goes on as an ordinary run.
IngestUnconfigured(org, files, cfg, missing) ==
    /\ pc = "idle"
    /\ ncalls < MaxCalls
    /\ AllChunked(files, cfg)
    /\ ncalls' = ncalls + 1
    /\ LET sup == Supported(files)
           docs == BuildDocs(org, files, cfg, FALSE)
           args == <<files, cfg>>
           raise == ret' = Raised("ingest", org, args, "none", MustBeSet(missing))
           empty_run == run' = [NoRun EXCEPT !.op = "ingest", !.org = org, !.args = args]
       IN  \/ /\ missing \in SearchSettings
              /\ raise
              /\ UNCHANGED <<containers, blobs, pc, run>>
           \/ /\ missing \in StorageSettings
              /\ sup # <<>>
              /\ raise
              /\ UNCHANGED <<containers, blobs, pc, run>>
           \/ /\ missing \in StorageSettings
              /\ sup = <<>>
              /\ empty_run
              /\ pc' = "return"
              /\ UNCHANGED <<containers, blobs, ret>>
           \/ /\ missing \in OpenAISettings
              /\ docs # <<>>
              /\ containers' = containers \cup {sanitize_azure_name(org)}
              /\ blobs' = blobs \cup BlobsOf(org, UpToFirstChunked(sup))
              /\ raise
              /\ UNCHANGED <<pc, run>>
           \/ /\ missing \in OpenAISettings
              /\ docs = <<>>
              /\ containers' = IF sup # <<>> THEN containers \cup {sanitize_azure_name(org)}
                                ELSE containers
              /\ blobs' = blobs \cup BlobsOf(org, sup)
              /\ empty_run
              /\ pc' = "return"
              /\ UNCHANGED ret
    /\ UNCHANGED <<indexes, index_docs, sources, kdocs, next_id, served>>
    /\ UNCHANGED <<chunkVars, sanVars>>

NextFiles ==
    \/ \E org \in RunOrgs : create_org(org)
    \/ \E org \in RunOrgs, files \in FileListings, cfg \in ChunkConfigs :
          IngestStart(org, files, cfg)
    \/ \E org \in RunOrgs, files \in FileListings, cfg \in ChunkConfigs, missing \in Settings :
          IngestUnconfigured(org, files, cfg, missing)
    \/ IngestUpsert
    \/ PfbCreate
    \/ PfbProcessing
    \/ PfbInsert
    \/ PfbCompleted
    \/ PfbFailed
    \/ IngestReturn

SpecFiles == SysInit /\ [][NextFiles]_vars

\* The collaborators' contents as one value, for the operations that run
\* whole ingestion runs inside one call
StoreNow ==
    [indexes |-> indexes, index_docs |-> index_docs, containers |-> containers,
     blobs |-> blobs, sources |-> sources, kdocs |-> kdocs, next_id |-> next_id,
     served |-> served]

\* the record-store requests of process_file_batch that may raise; the
\* last stands for insert_many raising and the FAILED update raising too
MetaFails ==
    {"insert_one", "update_processing", "insert_many", "update_completed", "update_failed"}

\* process_file_batch (mongodb_service.py:334-389) run to its end on store
\* st: mfail names the request that raises, if any, and n the number of
\* records insert_many stored before it raised. The caller
\* (document_processor.py:237-239) catches whatever it raises.
process_file_batch(st, org, file_data, mfail, n) ==
    LET id == st.next_id
        created == [st EXCEPT !.sources = @ @@ (id :> NewSource(org)), !.next_id = id + 1]
        processing == [created EXCEPT !.sources[id] =
                          StatusUpdate(@, "PROCESSING", "None", NoCount, NoCount)]
        stored(k) == [processing EXCEPT !.kdocs =
                          @ \cup {KDoc(id, org, file_data, j) : j \in 1..k}]
        failed(s, exc) == [s EXCEPT !.sources[id] =
                              StatusUpdate(@, "FAILED", exc, 0, Len(file_data))]
    IN  CASE mfail = "insert_one" -> st
          [] mfail = "update_processing" -> created
          [] mfail = "insert_many" -> failed(stored(Min(n, Len(file_data) - 1)), "insert_many failed")
          [] mfail = "update_failed" -> stored(Min(n, Len(file_data) - 1))
          [] mfail = "update_completed" -> failed(stored(Len(file_data)), "update_one failed")
          [] OTHER -> [stored(Len(file_data)) EXCEPT !.sources[id] =
                          StatusUpdate(@, "COMPLETED", "None", Len(file_data), 0)]

\* process_and_upload_org_files (document_processor.py:114-245) run to its
\* end on store st: fail names the collaborator request that raises, if
\* the run reaches it ("upload_blob", "embeddings", "upsert" or one of
\* MetaFails). Gives the store afterwards and whether the call raised.
process_and_upload_org_files(st, org, files, cfg, fail, n) ==
    LET cname == sanitize_azure_name(org)
        sup == Supported(files)
        docs == BuildDocs(org, files, cfg, FALSE)
        mdocs == BuildDocs(org, files, cfg, TRUE)
        uploaded == [st EXCEPT
                       !.containers = IF sup # <<>> THEN @ \cup {cname} ELSE @,
                       !.blobs = @ \cup BlobsOf(org, sup)]
        indexed == [uploaded EXCEPT !.index_docs = Upsert(@, docs),
                                    !.served = @ \cup {org}]
    IN  IF fail = "upload_blob" /\ sup # <<>>
        THEN [st |-> st, raised |-> TRUE]
        ELSE IF fail = "embeddings" /\ docs # <<>>
        THEN [st |-> [st EXCEPT !.containers = @ \cup {cname},
                                !.blobs = @ \cup BlobsOf(org, UpToFirstChunked(sup))],
              raised |-> TRUE]
        ELSE IF docs = <<>>
        THEN [st |-> uploaded, raised |-> FALSE]
        ELSE IF fail = "upsert" \/ cname \notin st.indexes
        THEN [st |-> uploaded, raised |-> TRUE]
        ELSE [st |-> process_file_batch(indexed, org, mdocs, fail, n), raised |-> FALSE]

\* the paths a caller may list: files of the directory, by name, and a
\* path at which no file exists
AbsentPath == <<"x", ".", "t", "x", "t">>
AddDirs == {<<FileNotes>>, <<FileNotes, FileUnder>>}
AddPaths ==
    {<<>>, <<AbsentPath>>, <<FileNotes.filename>>, <<AbsentPath, FileUnder.filename>>,
     <<FileNotes.filename, FileUnder.filename>>}

\* the requests of one add_documents call that may raise, and the entry of
\* file_paths during which the request raises
AddEnvs ==
    [fail : {"none", "own_upload", "upload_blob", "embeddings", "upsert"} \cup MetaFails,
     at : 1..2, n : 0..1]

\* the loop of add_documents (usage.py:152-185) from entry i of file_paths
\* on: a path at which no file exists is reported and skipped; an existing
\* file is uploaded (line 156) and then process_and_upload_org_files is
\* run on os.path.dirname(file_path), the directory dir that holds the
\* file. Any exception ends the loop with status 'error' (lines 187-193).
RECURSIVE AddLoop(_, _, _, _, _, _, _, _)
RECURSIVE AddStep(_, _, _, _, _, _, _, _)
AddLoop(st, org, dir, file_paths, cfg, env, i, results) ==
    IF i > Len(file_paths)
    THEN [st |-> st, status |-> "success", results |-> results]
    ELSE IF ~\E k \in 1..Len(dir) : dir[k].filename = file_paths[i]
    THEN AddLoop(st, org, dir, file_paths, cfg, env, i + 1,
                 Append(results, [file_path |-> file_paths[i], status |-> "error"]))
    ELSE IF env.at = i /\ env.fail = "own_upload"
    THEN [st |-> st, status |-> "error", results |-> <<>>]
    ELSE AddStep(process_and_upload_org_files(
                     [st EXCEPT !.containers = @ \cup {sanitize_azure_name(org)},
                                !.blobs = @ \cup {<<sanitize_azure_name(org), file_paths[i]>>}],
                     org, dir, cfg, IF env.at = i THEN env.fail ELSE "none", env.n),
                 org, dir, file_paths, cfg, env, i, results)

\* what follows the run of process_and_upload_org_files for entry i
AddStep(ran, org, dir, file_paths, cfg, env, i, results) ==
    IF ran.raised
    THEN [st |-> ran.st, status |-> "error", results |-> <<>>]
    ELSE AddLoop(ran.st, org, dir, file_paths, cfg, env, i + 1,
                 Append(results, [file_path |-> file_paths[i], status |-> "success"]))

\* add_documents (usage.py:143-193)
AddDocuments(org, dir, file_paths, cfg) ==
    /\ pc = "idle"
    /\ ncalls < MaxCalls
    /\ AllChunked(dir, cfg)
    /\ ncalls' = ncalls + 1
    /\ \E env \in AddEnvs :
         \E out \in {AddLoop(StoreNow, org, dir, file_paths, cfg, env, 1, <<>>)} :
            /\ indexes' = out.st.indexes
            /\ index_docs' = out.st.index_docs
            /\ containers' = out.st.containers
            /\ blobs' = out.st.blobs
            /\ sources' = out.st.sources
            /\ kdocs' = out.st.kdocs
            /\ next_id' = out.st.next_id
            /\ served' = out.st.served
            /\ ret' = [NoRet EXCEPT !.op = "add_documents", !.org = org,
                                    !.args = <<dir, file_paths, cfg>>,
                                    !.status = out.status, !.results = out.results]
    /\ UNCHANGED <<pc, run>>
    /\ UNCHANGED <<chunkVars, sanVars>>

NextAdd ==
    \/ \E org \in RunOrgs : create_org(org)
    \/ \E org \in RunOrgs, dir \in AddDirs, file_paths \in AddPaths, cfg \in ChunkConfigs :
          AddDocuments(org, dir, file_paths, cfg)

SpecAdd == SysInit /\ [][NextAdd]_vars

(***************************************************************************)
(* Retrieval and answering (src/src/search.py, src/usage.py)              *)
(***************************************************************************)
\* default k of perform_vector_search and search_documents (search.py:7, 80)
DEFAULT_K == 3

\* a tenant identifier that holds quote characters, and the tenant whose
\* canonical name it shares
OrgQuoted == <<"'", " ", "o", "r", " ", "o", "r", "g", "a", "n", "i", "z", "a", "t", "i", "o", "n", "_", "i", "d", " ", "n", "e", " ", "'">>
OrgPlain == <<"o", "r", "-", "o", "r", "g", "a", "n", "i", "z", "a", "t", "i", "o", "n", "-", "i", "d", "-", "n", "e">>

SearchOrgs == {<<"O", "r", "g", "_", "A">>, <<"o", "r", "g", "-", "a">>, OrgQuoted, OrgPlain}

\* the ingestion runs whose documents the index service may hold
CorpusRuns ==
    {<<<<"O", "r", "g", "_", "A">>, <<FileNotes>>, <<3, 0>>>>,
     <<<<"o", "r", "g", "-", "a">>, <<FileUnder>>, <<DEFAULT_CHUNK_SIZE, DEFAULT_CHUNK_OVERLAP>>>>,
     <<OrgPlain, <<FileNotes>>, <<DEFAULT_CHUNK_SIZE, DEFAULT_CHUNK_OVERLAP>>>>,
     <<OrgQuoted, <<FileUnder>>, <<DEFAULT_CHUNK_SIZE, DEFAULT_CHUNK_OVERLAP>>>>}

Queries == {<<"q">>}
Ks == 1..DEFAULT_K
Completions == {<<"y">>, <<"n">>}

StartsWith(s, p) == Len(s) >= Len(p) /\ SubSeq(s, 1, Len(p)) = p
Drop(s, n) == SubSeq(s, n + 1, Len(s))

\* f"organization_id eq '{org_id}'" (search.py:31)
FilterText(org_id) == <<"o", "r", "g", "a", "n", "i", "z", "a", "t", "i", "o", "n", "_", "i", "d", " ", "e", "q", " ", "'">> \o org_id \o <<"'">>

\* The index service reading a filter expression of the form
\*   organization_id (eq|ne) '<literal>' ((or|and) organization_id ...)*
\* where a quote inside a literal is written twice. ReadLiteral reads s from
\* just after an opening quote up to the closing one.
RECURSIVE ReadLiteral(_)
ReadLiteral(s) ==
    IF s = <<>> THEN [ok |-> FALSE, value |-> <<>>, rest |-> <<>>]
    ELSE IF Head(s) = "'"
         THEN IF Len(s) >= 2 /\ s[2] = "'"
              THEN LET r == ReadLiteral(Drop(s, 2))
                   IN  [r EXCEPT !.value = <<"'">> \o @]
              ELSE [ok |-> TRUE, value |-> <<>>, rest |-> Tail(s)]
         ELSE LET r == ReadLiteral(Tail(s))
              IN  [r EXCEPT !.value = <<Head(s)>> \o @]

\* the comparisons of a filter expression and the connectives between them
RECURSIVE ParseFilter(_)
ParseFilter(s) ==
    LET op == IF StartsWith(s, <<"o", "r", "g", "a", "n", "i", "z", "a", "t", "i", "o", "n", "_", "i", "d", " ", "e", "q", " ", "'">>) THEN "eq"
              ELSE IF StartsWith(s, <<"o", "r", "g", "a", "n", "i", "z", "a", "t", "i", "o", "n", "_", "i", "d", " ", "n", "e", " ", "'">>) THEN "ne" ELSE "none"
        lit == ReadLiteral(Drop(s, Len(<<"o", "r", "g", "a", "n", "i", "z", "a", "t", "i", "o", "n", "_", "i", "d", " ", "e", "q", " ", "'">>)))
        join == IF StartsWith(lit.rest, <<" ", "o", "r", " ">>) THEN "or"
                ELSE IF StartsWith(lit.rest, <<" ", "a", "n", "d", " ">>) THEN "and" ELSE "none"
        more == ParseFilter(Drop(lit.rest, IF join = "or" THEN 4 ELSE 5))
        bad == [ok |-> FALSE, clauses |-> <<>>, joins |-> <<>>]
    IN  IF op = "none" THEN bad
        ELSE IF ~lit.ok THEN bad
        ELSE IF lit.rest = <<>>
             THEN [ok |-> TRUE, clauses |-> <<[op |-> op, value |-> lit.value]>>,
                   joins |-> <<>>]
        ELSE IF join = "none" THEN bad
        ELSE IF ~more.ok THEN bad
        ELSE [ok |-> TRUE,
              clauses |-> <<[op |-> op, value |-> lit.value]>> \o more.clauses,
              joins |-> <<join>> \o more.joins]

\* whether document doc satisfies the parsed filter f ("and" binds tighter)
Satisfies(f, doc) ==
    LET holds(i) == IF f.clauses[i].op = "eq"
                    THEN doc.organization_id = f.clauses[i].value
                    ELSE doc.organization_id # f.clauses[i].value
        first(i) == i = 1 \/ f.joins[i - 1] = "or"
        sameGroup(i, j) == i <= j /\ \A m \in (i + 1)..j : f.joins[m - 1] = "and"
    IN  \E i \in 1..Len(f.clauses) :
            /\ first(i)
            /\ \A j \in i..Len(f.clauses) : sameGroup(i, j) => holds(j)

\* what the index service is asked and what it is given back: the tenant's
\* index in similarity order (ranking), the text the generation service
\* returns (completion), and the request that raises, if any (fail)
Rankings(S) ==
    {r \in [1..Cardinality(S) -> S] : \A i, j \in 1..Cardinality(S) : r[i] = r[j] => i = j}

IndexContent(org_id) == {d \in index_docs : d.index = sanitize_azure_name(org_id)}

Envs(org_id) ==
    [ranking : Rankings(IndexContent(org_id)), completion : Completions,
     fail : {"none", "search", "chat"}]

\* select=["content", "filepath", "organization_id", "blob_name"]
Selected(d) ==
    [content |-> d.content, filepath |-> d.filepath,
     organization_id |-> d.organization_id, blob_name |-> d.blob_name]

\* perform_vector_search (search.py:7-34): the k nearest documents of the
\* tenant's index that satisfy the filter, in the order the service ranks
\* them; the request raises when the index does not exist or the filter
\* expression is malformed
perform_vector_search(org_id, query, k, env) ==
    LET f == ParseFilter(FilterText(org_id))
        request == [req |-> "search", index |-> sanitize_azure_name(org_id),
                    filter |-> FilterText(org_id), k |-> k, query |-> query]
        hits == SelectSeq(env.ranking, LAMBDA d : Satisfies(f, d))
    IN  IF env.fail = "search" \/ sanitize_azure_name(org_id) \notin indexes \/ ~f.ok
        THEN [raised |-> TRUE, results |-> <<>>, issued |-> <<request>>]
        ELSE [raised |-> FALSE,
              results |-> [i \in 1..Min(k, Len(hits)) |-> Selected(hits[i])],
              issued |-> <<request>>]

\* "\n\n".join(context_parts) (search.py:62)
RECURSIVE Join(_, _)
Join(parts, sep) ==
    IF parts = <<>> THEN <<>>
    ELSE IF Len(parts) = 1 THEN parts[1]
    ELSE parts[1] \o sep \o Join(Tail(parts), sep)

\* get_rag_response with the results taken in reverse
get_rag_response_Reversed(org_id, query, search_results, env) ==
    LET n == Len(search_results)
        context_parts == [i \in 1..n |->
                            <<"F", "r", "o", "m", " ">> \o search_results[n + 1 - i].filepath
                                \o <<":", "\n">> \o search_results[n + 1 - i].content]
        request == [req |-> "chat", org |-> org_id,
                    context |-> Join(context_parts, <<"\n", "\n">>), query |-> query,
                    response |-> IF env.fail = "chat" THEN <<>> ELSE env.completion]
    IN  [raised |-> env.fail = "chat", text |-> request.response, issued |-> <<request>>]

\* get_rag_response (search.py:37-77): one chat completion request whose
\* user prompt carries the context built from the results in their order
get_rag_response(org_id, query, search_results, env) ==
    LET context_parts == [i \in 1..Len(search_results) |->
                            <<"F", "r", "o", "m", " ">> \o search_results[i].filepath
                                \o <<":", "\n">> \o search_results[i].content]
        request == [req |-> "chat", org |-> org_id,
                    context |-> Join(context_parts, <<"\n", "\n">>), query |-> query,
                    response |-> IF env.fail = "chat" THEN <<>> ELSE env.completion]
    IN  [raised |-> env.fail = "chat", text |-> request.response, issued |-> <<request>>]

\* f"I couldn't find any relevant information in organization '{org_id}' documents."
NoRelevantInformation(org_id) ==
    <<"I", " ", "c", "o", "u", "l", "d", "n", "'", "t", " ", "f", "i", "n", "d", " ", "a", "n", "y", " ", "r", "e", "l", "e", "v", "a", "n", "t", " ", "i", "n", "f", "o", "r", "m", "a", "t", "i", "o", "n", " ", "i", "n", " ", "o", "r", "g", "a", "n", "i", "z", "a", "t", "i", "o", "n", " ", "'">>
        \o org_id \o <<"'", " ", "d", "o", "c", "u", "m", "e", "n", "t", "s", ".">>

\* what search_documents returns after the generation call (search.py:97)
RagOutcome(found, rag) ==
    [raised |-> rag.raised, answer |-> rag.text, results |-> found.results,
     issued |-> found.issued \o rag.issued]

\* search_documents from line 94 on without the return at line 95
SearchOutcome_NoShortCircuit(org_id, query, found, env) ==
    IF found.raised
    THEN [raised |-> TRUE, answer |-> <<>>, results |-> <<>>, issued |-> found.issued]
    ELSE RagOutcome(found, get_rag_response(org_id, query, found.results, env))

\* search_documents from line 94 on, found being what the search at line 93 gave
SearchOutcome(org_id, query, found, env) ==
    IF found.raised
    THEN [raised |-> TRUE, answer |-> <<>>, results |-> <<>>, issued |-> found.issued]
    ELSE IF found.results = <<>>
    THEN [raised |-> FALSE, answer |-> NoRelevantInformation(org_id),
          results |-> <<>>, issued |-> found.issued]
    ELSE RagOutcome(found, get_rag_response(org_id, query, found.results, env))

\* search_documents (search.py:80-97)
search_documents(org_id, query, k, env) ==
    SearchOutcome(org_id, query, perform_vector_search(org_id, query, k, env), env)

\* what ask_question returns (usage.py:122-140) for the outcomes of its two calls
AskOutcome(search_results, response) ==
    IF search_results.raised
    THEN [status |-> "error", answer |-> <<>>, results |-> <<>>,
          issued |-> search_results.issued]
    ELSE IF response.raised
    THEN [status |-> "error", answer |-> <<>>, results |-> <<>>,
          issued |-> search_results.issued \o response.issued]
    ELSE [status |-> "success", answer |-> response.answer,
          results |-> search_results.results,
          issued |-> search_results.issued \o response.issued]

\* ask_question (usage.py:112-140): the search whose results are reported,
\* then search_documents(org_id, question) for the answer
ask_question(org_id, question, max_results, env) ==
    AskOutcome(perform_vector_search(org_id, question, max_results, env),
               search_documents(org_id, question, DEFAULT_K, env))

SearchFrame ==
    /\ UNCHANGED <<storeVars, pc, run, served>>
    /\ UNCHANGED <<chunkVars, sanVars>>

\* a call of perform_vector_search
VectorSearch(org_id, query, k) ==
    /\ pc = "idle"
    /\ ncalls < MaxCalls
    /\ ncalls' = ncalls + 1
    /\ \E env \in Envs(org_id) :
         LET out == perform_vector_search(org_id, query, k, env)
         IN  ret' = [NoRet EXCEPT
                       !.op = "perform_vector_search", !.org = org_id, !.args = <<query, k>>,
                       !.status = IF out.raised THEN "raised" ELSE "returned",
                       !.results = out.results, !.issued = out.issued]
    /\ SearchFrame

\* a call of search_documents
SearchDocuments(org_id, query, k) ==
    /\ pc = "idle"
    /\ ncalls < MaxCalls
    /\ ncalls' = ncalls + 1
    /\ \E env \in Envs(org_id) :
         LET out == search_documents(org_id, query, k, env)
         IN  ret' = [NoRet EXCEPT
                       !.op = "search_documents", !.org = org_id, !.args = <<query, k>>,
                       !.status = IF out.raised THEN "raised" ELSE "returned",
                       !.results = out.results, !.answer = out.answer,
                       !.issued = out.issued]
    /\ SearchFrame

\* a call of ask_question
AskQuestion(org_id, question, max_results) ==
    /\ pc = "idle"
    /\ ncalls < MaxCalls
    /\ ncalls' = ncalls + 1
    /\ \E env \in Envs(org_id) :
         LET out == ask_question(org_id, question, max_results, env)
         IN  ret' = [NoRet EXCEPT
                       !.op = "ask_question", !.org = org_id,
                       !.args = <<question, max_results>>,
                       !.status = out.status, !.results = out.results,
                       !.answer = out.answer, !.issued = out.issued]
    /\ SearchFrame

\* the index after the ingestion runs of a set of CorpusRuns completed.
\* A request reads the index and changes nothing, so what one request gives
\* does not depend on the requests before it: SearchInit leaves room for
\* one more call after the calls that wrote the index.
RECURSIVE Ingested(_)
Ingested(runs) ==
    IF runs = {} THEN {}
    ELSE LET r == CHOOSE x \in runs : TRUE
         IN  Upsert(Ingested(runs \ {r}), BuildDocs(r[1], r[2], r[3], FALSE))

SearchInit ==
    /\ ChunkIdle /\ SanIdle
    /\ \E runs \in SUBSET CorpusRuns :
         /\ indexes = {sanitize_azure_name(r[1]) : r \in runs}
         /\ containers = {sanitize_azure_name(r[1]) : r \in runs}
         /\ index_docs = Ingested(runs)
         /\ blobs = UNION {BlobsOf(r[1], r[2]) : r \in runs}
         /\ served = {r[1] : r \in runs}
    /\ sources = <<>> /\ kdocs = {} /\ next_id = 1
    /\ pc = "idle" /\ run = NoRun /\ ncalls = MaxCalls - 1 /\ ret = NoRet

NextSearch ==
    \/ \E org \in SearchOrgs, q \in Queries, k \in Ks : VectorSearch(org, q, k)
    \/ \E org \in SearchOrgs, q \in Queries, k \in Ks : SearchDocuments(org, q, k)
    \/ \E org \in SearchOrgs, q \in Queries, k \in Ks : AskQuestion(org, q, k)

SpecSearch == SearchInit /\ [][NextSearch]_vars

\* C6: two distinct tenant identifiers with the same canonical name are
\* never both served (create_org reporting success, or an ingestion writing
\* to the index) on the one index/container that name denotes.
C6_NoSilentMerge ==
    \A a, b \in served : a # b => sanitize_azure_name(a) # sanitize_azure_name(b)

\* C9: when the upsert succeeded and the metadata write then failed, the
\* index documents stay written, and what the caller receives is neither
\* the plain return of a fully successful run nor the exception of a failed
\* run.
C9_PartialFailureSurfaced ==
    /\ (pc = "return" /\ run.upsert = "ok" /\ run.meta = "failed") =>
           \A k \in 1..Len(run.documents) : run.documents[k] \in index_docs
    /\ (ret.op = "ingest" /\ ret.upsert = "ok" /\ ret.meta = "failed") =>
           (ret.status # "returned" /\ ret.status # "raised")

Lifecycle == {<<"PENDING", "PROCESSING">>, <<"PROCESSING", "COMPLETED">>,
              <<"PROCESSING", "FAILED">>}

\* C10: the status of a Knowledge Source changes only along
\* PENDING -> PROCESSING -> (COMPLETED or FAILED), so never again once it is
\* COMPLETED or FAILED.
C10_StatusLifecycle ==
    [][\A sid \in (DOMAIN sources) \cap (DOMAIN sources') :
          sources'[sid].status # sources[sid].status =>
              <<sources[sid].status, sources'[sid].status>> \in Lifecycle]_vars

\* C11: when the batch insert raised inside process_file_batch, the call
\* ends with the run's Knowledge Source in FAILED, errorMessage the text of
\* that exception, documentsProcessed 0, documentsFailed the number of
\* submitted documents, and that same exception raised to the caller.
C11_InsertFailureRecorded ==
    (pc = "return" /\ run.exc = "insert_many failed") =>
        /\ sources[run.source_id].status = "FAILED"
        /\ sources[run.source_id].errorMessage = run.exc
        /\ sources[run.source_id].documentsProcessed = 0
        /\ sources[run.source_id].documentsFailed = Len(run.mongo_documents)
        /\ run.raised = run.exc

\* the source a stored Knowledge Document was inserted for
SourceOf(d) == d.knowledgeSourceId[2]

\* C12: whenever delete_knowledge_source removes a source, no Knowledge
\* Document inserted for that source is left in the store (the documents go
\* first, so none can outlive its source).
C12_NoOrphanDocuments ==
    [][\A sid \in (DOMAIN sources) \ (DOMAIN sources') :
          ~\E d \in kdocs' : SourceOf(d) = sid]_vars

\* C13: the documents of one batch carry pairwise distinct ids, so once
\* the upsert of the batch succeeded the index holds every document of the
\* batch, one per chunk produced.
C13_OneDocumentPerChunk ==
    (pc = "pfb_create" /\ run.upsert = "ok") =>
        /\ \A j, k \in 1..Len(run.documents) :
               j # k => run.documents[j].id # run.documents[k].id
        /\ \A k \in 1..Len(run.documents) : run.documents[k] \in index_docs

\* the exceptions of a finished call that a collaborator raised
CollaboratorFailures ==
    {"upload_blob failed", "embeddings failed", "upsert failed", "scrape_website failed"}

\* the finished ingestion r had no item that yields a chunk
NoChunks(r) ==
    /\ r.op \in {"ingest", "scrape"}
    /\ IF r.op = "ingest" THEN BuildDocs(r.org, r.args[1], r.args[2], FALSE) = <<>>
       ELSE BuildWebDocs(r.org, r.args[1], r.args[2], FALSE) = <<>>

\* C15: an ingestion, of files or of a URL, in which no item yields a chunk
\* never reaches the index upsert or process_file_batch, and unless a
\* collaborator raised it returns to its caller without raising.
C15_EmptyIngestionIsQuiet ==
    /\ pc \notin {"idle", "return"} => run.documents # <<>>
    /\ (pc = "return" /\ run.documents = <<>>) => (run.upsert = "none" /\ run.meta = "none")
    /\ (NoChunks(ret) /\ ret.exc \notin CollaboratorFailures) => ret.status = "returned"

\* the run in flight repeats the call that finished last: the same
\* operation for the same tenant with the same content and chunk
\* parameters, whose upsert succeeded
Reingest ==
    /\ ret.op = run.op /\ ret.org = run.org /\ ret.args = run.args
    /\ ret.status = "returned" /\ ret.upsert = "ok"

C20_CreateOrgIdempotent ==
    [][\A org \in OrgIds :
          (/\ pc = "idle" /\ pc' = "idle" /\ ncalls' = ncalls + 1
           /\ ret'.op = "create_org" /\ ret'.org = org
           /\ sanitize_azure_name(org) \in indexes
           /\ sanitize_azure_name(org) \in containers)
          => /\ \A k \in 1..Len(ret'.issued) : ret'.issued[k] # "create_index"
             /\ indexes' = indexes /\ containers' = containers
             /\ ret'.exc = "none" => ret'.status = "success"]_vars

C20_Witness ==
    /\ ret.op = "create_org" /\ ret.status = "success" /\ ncalls >= 2
    /\ ret.issued = <<"list_index_names", "create_container">>
    /\ sanitize_azure_name(ret.org) \in indexes \cap containers

\* the chat completion requests among the requests a call issued
Chats(issued) == SelectSeq(issued, LAMBDA r : r.req = "chat")

\* C16: when the similarity search of search_documents returns no result,
\* the call returns the fixed no-relevant-information message and issues no
\* request to the generation service.
C16_NoResultsShortCircuit ==
    (ret.op = "search_documents" /\ ret.status = "returned" /\ ret.results = <<>>) =>
        /\ ret.answer = NoRelevantInformation(ret.org)
        /\ Chats(ret.issued) = <<>>

C16_Witness ==
    /\ ret.op = "search_documents" /\ ret.status = "returned" /\ ret.results = <<>>
    /\ IndexContent(ret.org) # {}

\* C17: every result a search for tenant T returns has organization_id T,
\* whatever the index holds, documents of other tenants included.
C17_ResultsOfTenantOnly ==
    ret.op \in {"perform_vector_search", "search_documents", "ask_question"} =>
        \A i \in 1..Len(ret.results) : ret.results[i].organization_id = ret.org

\* the blocks 'From <provenance>:\n<content>' of results, in their order,
\* separated by an empty line
RECURSIVE ContextBlocks(_)
ContextBlocks(results) ==
    IF results = <<>> THEN <<>>
    ELSE <<"F", "r", "o", "m", " ">> \o Head(results).filepath \o <<":", "\n">> \o Head(results).content
           \o (IF Len(results) > 1 THEN <<"\n", "\n">> ELSE <<>>)
           \o ContextBlocks(Tail(results))

\* C18: when the search of search_documents returns n >= 1 results, the
\* generation service is asked exactly once, with the n results as blocks in
\* the order the index returned them, and its text is returned unchanged.
C18_ContextInIndexOrder ==
    (ret.op = "search_documents" /\ ret.status = "returned" /\ ret.results # <<>>) =>
        /\ Len(Chats(ret.issued)) = 1
        /\ Chats(ret.issued)[1].context = ContextBlocks(ret.results)
        /\ ret.answer = Chats(ret.issued)[1].response

C18_Witness ==
    /\ ret.op = "search_documents" /\ ret.status = "returned" /\ Len(ret.results) >= 2
    /\ ret.results[1] # ret.results[2]
    /\ ret.answer \in Completions

\* C19: the answer of ask_question(org, question, max_results) comes from
\* a search for max_results neighbours: every search request of the call
\* asks for max_results, and the answer is generated from the results the
\* call reports.
C19_AnswerFromReportedResults ==
    (ret.op = "ask_question" /\ ret.status = "success") =>
        /\ \A i \in 1..Len(ret.issued) :
               ret.issued[i].req = "search" => ret.issued[i].k = ret.args[2]
        /\ ret.results # <<>> =>
               /\ Len(Chats(ret.issued)) = 1
               /\ Chats(ret.issued)[1].context = ContextBlocks(ret.results)
        /\ ret.results = <<>> => ret.answer = NoRelevantInformation(ret.org)

\* the Knowledge Documents of the store that carry the id of source k
DocumentsOf(k) == {d \in kdocs : d.knowledgeSourceId = StrId(k)}

\* C25: a Knowledge Source in a terminal state has documentsProcessed equal
\* to the number of Knowledge Documents stored for it: all submitted ones
\* for COMPLETED, the ones inserted before the failure for FAILED.
C25_CountsMatchStore ==
    \A k \in DOMAIN sources :
        sources[k].status \in {"COMPLETED", "FAILED"}
            => sources[k].documentsProcessed = Cardinality(DocumentsOf(k))

\* C26: once the ingestion call that created it has returned or raised, a
\* Knowledge Source is COMPLETED or FAILED, whichever record-store call
\* failed.
C26_SourcesTerminal ==
    pc = "idle" =>
        \A k \in DOMAIN sources : sources[k].status \in {"COMPLETED", "FAILED"}

\* C27: in an ingestion run the index upsert is issued once, and before
\* the run's Knowledge Source is created; a failed upsert is raised to the
\* caller and the run writes no Knowledge Source and no Knowledge Document.
C27_UpsertBeforeSource ==
    [][/\ pc = "upsert" => run.upsert = "none" /\ run.source_id = NoId
       /\ pc' = "upsert" => pc = "idle"
       /\ (pc # "idle" /\ (next_id' # next_id \/ kdocs' # kdocs)) => run.upsert = "ok"
       /\ (pc = "upsert" /\ pc' = "pfb_create") => run'.upsert = "ok"
       /\ (pc = "upsert" /\ pc' # "pfb_create") =>
              /\ pc' = "idle"
              /\ ret'.op = run.op /\ ret'.status = "raised" /\ ret'.exc = "upsert failed"
              /\ sources' = sources /\ kdocs' = kdocs /\ next_id' = next_id]_vars

C27_Witness ==
    /\ ret.status = "raised" /\ ret.exc = "upsert failed"
    /\ DOMAIN sources # {}
    /\ \E d \in kdocs : TRUE

\* a step that is a whole call of operation op
CallOf(op) ==
    pc = "idle" /\ pc' = "idle" /\ ncalls' = ncalls + 1 /\ ret'.op = op

\* C21: delete_org for a tenant whose index and container do not exist
\* creates neither, and returns status 'success' unless the container
\* request itself raises an error other than not-found.
C21_DeleteAbsentTenant ==
    [][(/\ CallOf("delete_org")
        /\ sanitize_azure_name(ret'.org) \notin indexes
        /\ sanitize_azure_name(ret'.org) \notin containers)
       => /\ indexes' = indexes /\ containers' = containers
          /\ ret'.exc # "delete_container failed" => ret'.status = "success"]_vars

C21_Witness ==
    /\ ret.op = "delete_org" /\ ret.status = "success" /\ ret.exc = "none"
    /\ ncalls = 1 /\ indexes = {} /\ containers = {}

\* C22: delete_org attempts the container deletion whether or not the
\* index deletion failed, and returns status 'error' whenever the index
\* deletion or the container deletion failed.
C22_DeleteFailuresReported ==
    [][CallOf("delete_org")
       => /\ \E i \in 1..Len(ret'.issued) : ret'.issued[i] = "delete_container"
          /\ \E i \in 1..Len(ret'.issued) : ret'.issued[i] = "list_index_names"
          /\ ret'.exc # "none" => ret'.status = "error"]_vars

\* C28: after create_org for a tenant that had neither index nor
\* container, the index exists if and only if the container exists,
\* whatever status the call returns.
C28_IndexIffContainer ==
    [][(/\ CallOf("create_org")
        /\ sanitize_azure_name(ret'.org) \notin indexes
        /\ sanitize_azure_name(ret'.org) \notin containers)
       => (sanitize_azure_name(ret'.org) \in indexes'
             <=> sanitize_azure_name(ret'.org) \in containers')]_vars

\* C29: get_org_info for a tenant that has neither container nor index
\* reports blob_count 0, search_index_exists false and status 'inactive',
\* creates no container and no index, and leaves the result of list_orgs
\* as it was.
C29_GetOrgInfoReadOnly ==
    [][(/\ CallOf("get_org_info")
        /\ sanitize_azure_name(ret'.org) \notin list_orgs
        /\ ret'.exc = "none")
       => /\ ret'.results = <<[blob_count |-> 0, search_index_exists |-> FALSE]>>
          /\ ret'.status = "inactive"
          /\ containers' = containers /\ indexes' = indexes
          /\ list_orgs' = list_orgs]_vars

\* the supported files of a listing whose extracted text is not blank
Extracted(files) ==
    SelectSeq(files, LAMBDA f : f.ext \in SUPPORTED_EXTENSIONS /\ Strip(f.content) # <<>>)

\* every chunk of every file of Extracted(files) is in the tenant's index
AllIndexed(org, files, cfg) ==
    LET docs == BuildDocs(org, Extracted(files), cfg, FALSE)
    IN  /\ docs # <<>>
        /\ \A k \in 1..Len(docs) : docs[k] \in index_docs

\* every chunk of every file of Extracted(files) has a Knowledge Document
AllRecorded(org, files, cfg) ==
    LET mdocs == BuildDocs(org, Extracted(files), cfg, TRUE)
    IN  \A k \in 1..Len(mdocs) :
            \E d \in kdocs : /\ d.organizationId = org
                              /\ d.title = mdocs[k].title
                              /\ d.content = mdocs[k].content

\* C23: in process_and_upload_org_files a file whose extraction fails or
\* yields blank text gets no index document and no Knowledge Document and
\* makes the run raise nothing (a run raises only what a collaborator or
\* an unset setting raised), and the other supported files of the
\* directory are indexed and recorded by the run.
C23_ExtractionFailureSkipped ==
    /\ \A d \in index_docs : d.filepath \notin {FileBroken.filename, FileBlank.filename}
    /\ \A d \in kdocs : d.title[1] \notin {FileBroken.filename, FileBlank.filename}
    /\ (ret.op = "ingest" /\ ret.status = "raised")
          => ret.exc \in CollaboratorFailures \cup {MustBeSet(m) : m \in Settings}
    /\ (pc = "idle" /\ ret.op = "ingest" /\ ret.status = "returned"
          /\ Extracted(ret.args[1]) # <<>> /\ ret.upsert = "ok")
          => AllIndexed(ret.org, ret.args[1], ret.args[2])
    /\ (pc = "idle" /\ ret.op = "ingest" /\ ret.status = "returned"
          /\ Extracted(ret.args[1]) # <<>> /\ ret.meta = "ok")
          => AllRecorded(ret.org, ret.args[1], ret.args[2])

C23_Witness ==
    /\ pc = "idle" /\ ret.op = "ingest" /\ ret.status = "returned" /\ ret.meta = "ok"
    /\ ret.args[1] = <<FileNotes, FileBlank, FileBroken, FileReport>>
    /\ \E d \in index_docs : d.filepath = FileReport.filename
    /\ \E d \in kdocs : d.title[1] = FileReport.filename

\* C24: an ingestion that raises because a setting of a collaborator is
\* unset has uploaded no blob, written no index document and written no
\* metadata record.
C24_FailsBeforeIO ==
    [][(CallOf("ingest") /\ ret'.exc \in {MustBeSet(m) : m \in Settings})
       => /\ blobs' = blobs /\ containers' = containers
          /\ index_docs' = index_docs
          /\ sources' = sources /\ kdocs' = kdocs]_vars

\* C30: a call of add_documents writes index documents and Knowledge
\* Documents for listed files only, and each Knowledge Source it creates
\* (one ingestion run) holds the documents of one file.
C30_OnlyListedFiles ==
    [][CallOf("add_documents")
       => /\ \A d \in index_docs' \ index_docs :
                \E i \in 1..Len(ret'.args[2]) : d.filepath = ret'.args[2][i]
          /\ \A d \in kdocs' \ kdocs :
                \E i \in 1..Len(ret'.args[2]) : d.title[1] = ret'.args[2][i]
          /\ \A k \in (DOMAIN sources') \ DOMAIN sources :
                Cardinality({d.title[1] : d \in {e \in kdocs' : e.knowledgeSourceId = StrId(k)}}) <= 1]_vars

=============================================================================
